---- MODULE Spec2Model ----
(***************************************************************************)
(* blstrs-pvss-simulation: a cost simulation of the group operations of    *)
(* Groth16 over BLS12-381.                                                 *)
(*                                                                         *)
(*   main.rs                  simulate_groth -> simulate_group_ops (the    *)
(*                            "direct path"): sample operands, then run    *)
(*                            them inside a timed region                   *)
(*   group_ops_simulation.rs  GroupOpsSimulation (the "builder path"): a   *)
(*                            list of boxed items, each sampled when it is *)
(*                            added, all run by simulate()                 *)
(*                                                                         *)
(* Group elements and scalars are opaque: a sampled value is identified by *)
(* the position of its draw in the stream of the random source, and a Vec  *)
(* collected from consecutive draws by the range of those positions.       *)
(* Calls into blstrs (scalar multiplication, multi_exp, pairing, Miller    *)
(* loop, final exponentiation) are recorded, in order, in a trace.         *)
(***************************************************************************)
EXTENDS Integers, Sequences, FiniteSets, TLC

\* ---------------------------------------------------------------- bounds
\* Width of usize in the model (the machine has 64).
UsizeBits == 20
\* Circuit parameters n, k, t, l range over 0..MaxParam (plus main's literals).
MaxParam == 2
\* Arguments of the add methods: num up to MaxNum, size up to MaxSize.
MaxNum == 2
MaxSize == 2
\* Items a free client adds to one GroupOpsSimulation.
MaxItems == 2
\* Calls of GroupOpsSimulation::simulate on one builder.
MaxSimCalls == 2
\* Entries of the three (num, size) lists of one schedule, taken together.
MaxEntries == 3
\* multi_pairing called on its own: lengths 0..MaxLen, first draw 0..MaxBase.
MaxLen == 3
MaxBase == 2

UsizeMod == 2 ^ UsizeBits
UsizeMax == UsizeMod - 1

Min(a, b) == IF a <= b THEN a ELSE b

\* ------------------------------------------------------ usize arithmetic
\* A usize value with the record of an overflow on the way to it.  Rust
\* panics on overflow when overflow checks are on (debug profile) and
\* wraps modulo 2^w when they are off (release profile).
U(x) == [val |-> x, ovf |-> FALSE]

RECURSIVE MulMod(_, _)
MulMod(a, b) ==
  IF b = 0 THEN 0
  ELSE (2 * MulMod(a, b \div 2) + (b % 2) * a) % UsizeMod

MulOverflows(a, b) == a # 0 /\ b > UsizeMax \div a

UAdd(x, y) ==
  [val |-> (x.val + y.val) % UsizeMod,
   ovf |-> x.ovf \/ y.ovf \/ x.val + y.val > UsizeMax]

UMul(x, y) ==
  [val |-> IF MulOverflows(x.val, y.val) THEN MulMod(x.val, y.val)
           ELSE x.val * y.val,
   ovf |-> x.ovf \/ y.ovf \/ MulOverflows(x.val, y.val)]

\* --------------------------------------------------- random source, Vecs
\* A Vec of len values drawn consecutively: draws lo+1 .. lo+len.
Vec(lo, len, repr) == [lo |-> lo, len |-> len, repr |-> repr]

\* The i-th element of a Vec.
Elem(v, i) == Vec(v.lo + i - 1, 1, v.repr)

Repr(kind) == IF kind = "Scalar" THEN "scalar" ELSE "projective"

NewRng == [pos |-> 0, log |-> <<>>]

\* (0..num).map(|_| T::random(&mut rng)).collect(): num draws of kind T.
RandomVec(r, kind, num) ==
  [vec |-> Vec(r.pos, num, Repr(kind)),
   rng |-> [pos |-> r.pos + num, log |-> Append(r.log, <<kind, num>>)]]

\* Curve::to_affine on every element.
ToAffine(v) == [v EXCEPT !.repr = "affine"]

\* G2Prepared::from on every (affine) element.
Prepare(v) == [v EXCEPT !.repr = "prepared"]

\* Iterator::zip stops at the shorter side.
ZipLen(a, b) == Min(a.len, b.len)

Take(v, len) == [v EXCEPT !.len = len]

\* ------------------------------------------------ calls into the provider
Op(kind, group, lhs, rhs) ==
  [kind |-> kind, group |-> group, lhs |-> lhs, rhs |-> rhs]

\* bases.iter().zip(scalars).map(|(base, scalar)| base * scalar).collect()
ExpOps(group, bases, scalars) ==
  [i \in 1..ZipLen(bases, scalars) |->
     Op("mul", group, Elem(bases, i), Elem(scalars, i))]

\* for _ in 0..num { T::multi_exp(bases, scalars) }
MultiExpOps(group, num, bases, scalars) ==
  [i \in 1..num |-> Op("multi_exp", group, bases, scalars)]

\* args_G1.iter().zip(args_G2).map(|(a, b)| pairing(a, b)).collect()
PairingOps(g1, g2) ==
  [i \in 1..ZipLen(g1, g2) |-> Op("pairing", "Gt", Elem(g1, i), Elem(g2, i))]

\* multi_pairing: zip the two sequences, convert each pair to
\* (G1Affine, G2Prepared), one multi_miller_loop over the pairs, one
\* final_exponentiation of its result; the value returned is a Gt.
multi_pairing(lhs, rhs) ==
  LET n == ZipLen(lhs, rhs)
      g1 == ToAffine(Take(lhs, n))
      g2 == Prepare(ToAffine(Take(rhs, n)))
  IN [outcome |-> "Gt",
      ops |-> << Op("multi_miller_loop", "Bls12", g1, g2),
                 Op("final_exponentiation", "Bls12", g1, g2) >>]

RECURSIVE MultiPairingOps(_, _, _)
\* for i in 0..num { multi_pairing(args_G1.iter(), args_G2.iter()) }
MultiPairingOps(num, g1, g2) ==
  IF num = 0 THEN <<>>
  ELSE multi_pairing(g1, g2).ops \o MultiPairingOps(num - 1, g1, g2)

\* ------------------------------------- group_ops_simulation.rs: the items
\* Exps::new: num bases, then num scalars.
ExpsNew(r, group, num) ==
  LET b == RandomVec(r, group, num)
      s == RandomVec(b.rng, "Scalar", num)
  IN [item |-> [type |-> "Exps", group |-> group,
                bases |-> b.vec, scalars |-> s.vec],
      rng |-> s.rng]

\* MultiExps::new: the repetition count, size bases, then size scalars.
MultiExpsNew(r, group, num, size) ==
  LET b == RandomVec(r, group, size)
      s == RandomVec(b.rng, "Scalar", size)
  IN [item |-> [type |-> "MultiExps", group |-> group, num |-> num,
                bases |-> b.vec, scalars |-> s.vec],
      rng |-> s.rng]

\* Pairings::new: num G1 points, then num G2 points, each made affine.
PairingsNew(r, num) ==
  LET a == RandomVec(r, "G1", num)
      b == RandomVec(a.rng, "G2", num)
  IN [item |-> [type |-> "Pairings",
                args_G1 |-> ToAffine(a.vec), args_G2 |-> ToAffine(b.vec)],
      rng |-> b.rng]

\* MultiPairings::new: the repetition count, size G1 points, size G2 points.
MultiPairingsNew(r, num, size) ==
  LET a == RandomVec(r, "G1", size)
      b == RandomVec(a.rng, "G2", size)
  IN [item |-> [type |-> "MultiPairings", num |-> num,
                args_G1 |-> a.vec, args_G2 |-> b.vec],
      rng |-> b.rng]

ExpsSimulate(item) == ExpOps(item.group, item.bases, item.scalars)

\* MultiExps::simulate repeating once per operand instead of num times.
MultiExpsSimulatePerOperand(item) ==
  MultiExpOps(item.group, item.bases.len, item.bases, item.scalars)

MultiExpsSimulate(item) ==
  MultiExpOps(item.group, item.num, item.bases, item.scalars)

PairingsSimulate(item) == PairingOps(item.args_G1, item.args_G2)

MultiPairingsSimulate(item) ==
  MultiPairingOps(item.num, item.args_G1, item.args_G2)

\* Box<dyn GroupOpsSimulationItem>: simulate dispatches on the boxed type.
ItemSimulate(item) ==
  CASE item.type = "Exps" -> ExpsSimulate(item)
    [] item.type = "MultiExps" -> MultiExpsSimulate(item)
    [] item.type = "Pairings" -> PairingsSimulate(item)
    [] item.type = "MultiPairings" -> MultiPairingsSimulate(item)

\* The loop visiting the items last to first.
ItemsIterReversed(n) == [j \in 1..n |-> n + 1 - j]

\* The loop missing the last item.
ItemsIterShort(n) == [j \in 1..(n - 1) |-> j]

\* for item in &self.items: the indices in the order the loop visits them.
ItemsIter(n) == [j \in 1..n |-> j]

\* The provider calls of one item, labelled with the item's index and the
\* number of the simulate() call that made them.
TagOps(ops, i, c) ==
  [j \in 1..Len(ops) |-> [item |-> i, call |-> c, op |-> ops[j]]]

RECURSIVE SimulateFrom(_, _, _, _)
SimulateFrom(its, order, j, c) ==
  IF j > Len(order) THEN <<>>
  ELSE TagOps(ItemSimulate(its[order[j]]), order[j], c)
         \o SimulateFrom(its, order, j + 1, c)

\* GroupOpsSimulation::simulate: every item's simulate, in loop order.
SimulateAll(its, c) == SimulateFrom(its, ItemsIter(Len(its)), 1, c)

\* ------------------------------------------ main.rs: simulate_group_ops
RECURSIVE SampleBatches(_, _, _, _)
\* for (num, size) in list { a: size draws; b: size draws; push((num, a, b)) }
SampleBatches(list, r, kindA, kindB) ==
  IF list = <<>> THEN [out |-> <<>>, rng |-> r]
  ELSE LET num == Head(list)[1]
           size == Head(list)[2]
           a == RandomVec(r, kindA, size)
           b == RandomVec(a.rng, kindB, size)
           rest == SampleBatches(Tail(list), b.rng, kindA, kindB)
       IN [out |-> << <<num, a.vec, b.vec>> >> \o rest.out, rng |-> rest.rng]

\* Lines 30 to 61: every operand of the call, sampled in this order.
SampleOperands(c, r) ==
  LET b1 == RandomVec(r, "G1", c.num_exps_in_G1)
      s1 == RandomVec(b1.rng, "Scalar", c.num_exps_in_G1)
      m1 == SampleBatches(c.mexps_in_G1, s1.rng, "G1", "Scalar")
      b2 == RandomVec(m1.rng, "G2", c.num_exps_in_G2)
      s2 == RandomVec(b2.rng, "Scalar", c.num_exps_in_G2)
      m2 == SampleBatches(c.mexps_in_G2, s2.rng, "G2", "Scalar")
      p1 == RandomVec(m2.rng, "G1", c.num_pairings)
      p2 == RandomVec(p1.rng, "G2", c.num_pairings)
      mp == SampleBatches(c.multi_pairings, p2.rng, "G1", "G2")
  IN [args |-> [exp_G1 |-> <<b1.vec, s1.vec>>,
                mexp_G1 |-> m1.out,
                exp_G2 |-> <<b2.vec, s2.vec>>,
                mexp_G2 |-> m2.out,
                pairing |-> <<ToAffine(p1.vec), ToAffine(p2.vec)>>,
                multi_pairing |-> mp.out],
      rng |-> mp.rng]

RECURSIVE MexpAll(_, _)
\* mexp_args.iter().for_each(|(num, bases, scalars)| for i in 0..num {..})
MexpAll(group, list) ==
  IF list = <<>> THEN <<>>
  ELSE MultiExpOps(group, Head(list)[1], Head(list)[2], Head(list)[3])
         \o MexpAll(group, Tail(list))

RECURSIVE MultiPairingAll(_)
MultiPairingAll(list) ==
  IF list = <<>> THEN <<>>
  ELSE MultiPairingOps(Head(list)[1], Head(list)[2], Head(list)[3])
         \o MultiPairingAll(Tail(list))

\* The timed calls with the G2 exponentiations ahead of the G1 multi-exps.
TimedOpsReordered(a) ==
  ExpOps("G1", a.exp_G1[1], a.exp_G1[2])
    \o ExpOps("G2", a.exp_G2[1], a.exp_G2[2])
    \o MexpAll("G1", a.mexp_G1)
    \o MexpAll("G2", a.mexp_G2)
    \o PairingOps(a.pairing[1], a.pairing[2])
    \o MultiPairingAll(a.multi_pairing)

\* Lines 64 to 69: the provider calls between Instant::now() and elapsed().
TimedOps(a) ==
  ExpOps("G1", a.exp_G1[1], a.exp_G1[2])
    \o MexpAll("G1", a.mexp_G1)
    \o ExpOps("G2", a.exp_G2[1], a.exp_G2[2])
    \o MexpAll("G2", a.mexp_G2)
    \o PairingOps(a.pairing[1], a.pairing[2])
    \o MultiPairingAll(a.multi_pairing)

\* ---------------------------------------------- main.rs: simulate_groth
\* ProverArgs with the second entry written (size, repetitions).
ProverArgsSwapped(p) ==
  LET n == U(p.n)  k == U(p.k)  t == U(p.t)  l == U(p.l)
  IN [num_exps_in_G1 |-> UAdd(UAdd(UAdd(n, UMul(U(2), k)), l), U(2)),
      mexps_in_G1 |->
        << <<U(2), n>>,
           <<U(2), UAdd(UAdd(UAdd(UAdd(UMul(n, k), n), k), l), U(1))>> >>,
      num_exps_in_G2 |-> UAdd(t, U(1)),
      mexps_in_G2 |-> <<>>,
      num_pairings |-> U(0),
      multi_pairings |-> <<>>]

\* The arguments of the first call ("Prover:"), computed in usize.
ProverArgs(p) ==
  LET n == U(p.n)  k == U(p.k)  t == U(p.t)  l == U(p.l)
  IN [num_exps_in_G1 |-> UAdd(UAdd(UAdd(n, UMul(U(2), k)), l), U(2)),
      mexps_in_G1 |->
        << <<U(2), n>>,
           <<UAdd(UAdd(UAdd(UAdd(UMul(n, k), n), k), l), U(1)), U(2)>> >>,
      num_exps_in_G2 |-> UAdd(t, U(1)),
      mexps_in_G2 |-> <<>>,
      num_pairings |-> U(0),
      multi_pairings |-> <<>>]

\* VerifierArgs with the third entry written (size, repetitions).
VerifierArgsSwapped(p) ==
  LET n == U(p.n)  k == U(p.k)  t == U(p.t)  l == U(p.l)
  IN [num_exps_in_G1 |-> UAdd(n, U(2)),
      mexps_in_G1 |->
        << <<U(1), U(2)>>,
           <<U(2), UAdd(n, U(1))>>,
           <<UAdd(k, U(1)), n>>,
           <<U(1), UAdd(l, U(1))>>,
           <<U(1), UAdd(UAdd(UMul(UMul(k, n), l), l), U(1))>>,
           <<U(1), UAdd(n, U(2))>>,
           <<U(2), k>> >>,
      num_exps_in_G2 |-> U(1),
      mexps_in_G2 |-> << <<U(1), UAdd(t, U(1))>>, <<U(1), k>> >>,
      num_pairings |-> U(0),
      multi_pairings |-> << <<U(1), U(3)>> >>]

\* The arguments of the second call ("Verifier:").
VerifierArgs(p) ==
  LET n == U(p.n)  k == U(p.k)  t == U(p.t)  l == U(p.l)
  IN [num_exps_in_G1 |-> UAdd(n, U(2)),
      mexps_in_G1 |->
        << <<U(1), U(2)>>,
           <<U(2), UAdd(n, U(1))>>,
           <<n, UAdd(k, U(1))>>,
           <<U(1), UAdd(l, U(1))>>,
           <<U(1), UAdd(UAdd(UMul(UMul(k, n), l), l), U(1))>>,
           <<U(1), UAdd(n, U(2))>>,
           <<U(2), k>> >>,
      num_exps_in_G2 |-> U(1),
      mexps_in_G2 |-> << <<U(1), UAdd(t, U(1))>>, <<U(1), k>> >>,
      num_pairings |-> U(0),
      multi_pairings |-> << <<U(1), U(3)>> >>]

ListOverflowed(list) == \E i \in 1..Len(list) : list[i][1].ovf \/ list[i][2].ovf

\* Some argument of the call overflowed usize while it was computed.
Overflowed(a) ==
  \/ a.num_exps_in_G1.ovf \/ a.num_exps_in_G2.ovf \/ a.num_pairings.ovf
  \/ ListOverflowed(a.mexps_in_G1) \/ ListOverflowed(a.mexps_in_G2)
  \/ ListOverflowed(a.multi_pairings)

ListValues(list) == [i \in 1..Len(list) |-> <<list[i][1].val, list[i][2].val>>]

\* The usize values that reach simulate_group_ops.
Values(a) ==
  [num_exps_in_G1 |-> a.num_exps_in_G1.val,
   mexps_in_G1 |-> ListValues(a.mexps_in_G1),
   num_exps_in_G2 |-> a.num_exps_in_G2.val,
   mexps_in_G2 |-> ListValues(a.mexps_in_G2),
   num_pairings |-> a.num_pairings.val,
   multi_pairings |-> ListValues(a.multi_pairings)]

\* ----------------------------------------------------------------- state
VARIABLES
  \* main.rs
  overflow_checks, \* build profile: TRUE panics on overflow, FALSE wraps
  params,          \* n, k, t, l of simulate_groth
  pc,              \* position in main / simulate_groth / simulate_group_ops
  phase,           \* which call of simulate_groth is running
  call,            \* the arguments of the running simulate_group_ops
  passed,          \* the arguments of every simulate_group_ops call so far
  thread_rng,      \* the thread-local generator behind thread_rng()
  operands,        \* exp_G1_args .. multi_pairing_args of the running call
  direct_trace,    \* provider calls made by the running call
  mark,            \* stream position at entry, at Instant::now(), at elapsed()
  stdout,          \* lines printed
  \* group_ops_simulation.rs
  alive,           \* the GroupOpsSimulation: "none", "live" or "dropped"
  items,           \* GroupOpsSimulation.items
  rng,             \* the generator GroupOpsSimulation.rng borrows
  trace,           \* provider calls made by simulate(), labelled
  invoked,         \* <<call, item>> for every item simulate() invoked
  built,           \* the add call that made each item
  born,            \* simulate() calls finished when each item was added
  runs,            \* times each item's simulate was invoked
  sim_calls,       \* calls of GroupOpsSimulation::simulate so far
  todo,            \* the client's remaining add calls, or any (free)
  \* multi_pairing called on its own
  helper

vars == << overflow_checks, params, pc, phase, call, passed, thread_rng,
           operands, direct_trace, mark, stdout, alive, items, rng, trace,
           invoked, built, born, runs, sim_calls, todo, helper >>

mainVars == << overflow_checks, params, pc, phase, call, passed, thread_rng,
               operands, direct_trace, mark, stdout >>

builderVars == << alive, items, rng, trace, invoked, built, born, runs,
                  sim_calls, todo >>

\* main(): simulate_groth(1000, 16, 666, 50)
MainParams == [n |-> 1000, k |-> 16, t |-> 666, l |-> 50]

GrothParams ==
  [n : 0..MaxParam, k : 0..MaxParam, t : 0..MaxParam, l : 0..MaxParam]
    \cup {MainParams}

\* Parameters at the edge of usize.  n and k stay small: they are
\* repetition counts, and a wrapped count near 2^w is that many calls.
WideParams ==
  [n : 0..1, k : 0..1, t : {0, 1, UsizeMax}, l : {0, 1, UsizeMax}]

\* The arguments a client gives: an operation count, and a (num, size)
\* entry: no repetition, no operand, one call on several operands, several
\* calls on one operand.
Nums == {0, MaxNum}

Entries ==
  { <<0, MaxSize>>, <<MaxNum, 0>>, <<1, MaxSize>>, <<MaxNum, 1>> }

NoCall ==
  [num_exps_in_G1 |-> 0, mexps_in_G1 |-> <<>>, num_exps_in_G2 |-> 0,
   mexps_in_G2 |-> <<>>, num_pairings |-> 0, multi_pairings |-> <<>>]

NoOperands == SampleOperands(NoCall, NewRng).args

NoMark == [entry |-> 0, start |-> 0, stop |-> 0, timed |-> 0]

NoHelper ==
  [state |-> "unused", lhs |-> Vec(0, 0, "projective"),
   rhs |-> Vec(0, 0, "projective"), out |-> [outcome |-> "none", ops |-> <<>>]]

MainIdle ==
  /\ overflow_checks = FALSE
  /\ params = [n |-> 0, k |-> 0, t |-> 0, l |-> 0]
  /\ pc = "idle" /\ phase = "none" /\ call = NoCall /\ passed = <<>>
  /\ thread_rng = NewRng /\ operands = NoOperands /\ direct_trace = <<>>
  /\ mark = NoMark /\ stdout = <<>>

\* GroupOpsSimulation::new(rng): no items, the caller's generator.
BuilderNew(state, script) ==
  /\ alive = state /\ items = <<>> /\ rng = NewRng /\ trace = <<>>
  /\ invoked = <<>> /\ built = <<>> /\ born = <<>> /\ runs = <<>>
  /\ sim_calls = 0 /\ todo = script

FreeClient == [free |-> TRUE, calls |-> <<>>]

\* The binary: main calls simulate_groth.
InitMainWith(P) ==
  /\ overflow_checks \in BOOLEAN
  /\ params \in P
  /\ pc = "main" /\ phase = "none" /\ call = NoCall /\ passed = <<>>
  /\ thread_rng = NewRng /\ operands = NoOperands /\ direct_trace = <<>>
  /\ mark = NoMark /\ stdout = <<>>
  /\ BuilderNew("none", FreeClient)
  /\ helper = NoHelper

InitMain == InitMainWith(GrothParams)

\* A client of the library: a new GroupOpsSimulation, any calls.
InitBuilder ==
  /\ MainIdle
  /\ BuilderNew("live", FreeClient)
  /\ helper = NoHelper

\* The schedules both paths are run on: the three operation counts, and at
\* most MaxEntries (num, size) entries shared out over the three lists.
EquivCounts == { <<0, 0, 0>>, <<0, MaxNum, 0>>, <<MaxNum, MaxNum, MaxNum>> }

EquivEntries == { <<1, MaxSize>>, <<MaxNum, 1>> }

EntryLists == UNION { [1..m -> EquivEntries] : m \in 0..MaxEntries }

Schedule(e1, e2, p, all, i, j) ==
  [num_exps_in_G1 |-> e1,
   mexps_in_G1 |-> SubSeq(all, 1, i),
   num_exps_in_G2 |-> e2,
   mexps_in_G2 |-> SubSeq(all, i + 1, j),
   num_pairings |-> p,
   multi_pairings |-> SubSeq(all, j + 1, Len(all))]

EquivSchedules ==
  UNION { UNION { { Schedule(e[1], e[2], e[3], all, i, j) :
                    e \in EquivCounts, j \in i..Len(all) } :
                  i \in 0..Len(all) } :
          all \in EntryLists }

AddCall(method, num, size) == [method |-> method, num |-> num, size |-> size]

\* The builder calls that state the schedule S: g1_exps, a g1_multi_exps
\* per entry, g2_exps, a g2_multi_exps per entry, pairings, a
\* multi_pairings per entry.
BuildCalls(S) ==
  << AddCall("g1_exps", S.num_exps_in_G1, 0) >>
    \o [i \in 1..Len(S.mexps_in_G1) |->
          AddCall("g1_multi_exps", S.mexps_in_G1[i][1], S.mexps_in_G1[i][2])]
    \o << AddCall("g2_exps", S.num_exps_in_G2, 0) >>
    \o [i \in 1..Len(S.mexps_in_G2) |->
          AddCall("g2_multi_exps", S.mexps_in_G2[i][1], S.mexps_in_G2[i][2])]
    \o << AddCall("pairings", S.num_pairings, 0) >>
    \o [i \in 1..Len(S.multi_pairings) |->
          AddCall("multi_pairings", S.multi_pairings[i][1],
                  S.multi_pairings[i][2])]

\* One schedule given to both paths by one thread: simulate_group_ops is
\* run on it, then a client states it to a new GroupOpsSimulation.
InitEquiv ==
  \E S \in EquivSchedules :
    /\ overflow_checks = FALSE
    /\ params = [n |-> 0, k |-> 0, t |-> 0, l |-> 0]
    /\ pc = "sample" /\ phase = "none" /\ call = S /\ passed = << S >>
    /\ thread_rng = NewRng /\ operands = NoOperands /\ direct_trace = <<>>
    /\ mark = NoMark /\ stdout = <<>>
    /\ BuilderNew("live", [free |-> FALSE, calls |-> BuildCalls(S)])
    /\ helper = NoHelper

\* multi_pairing given two sequences of any lengths.
InitHelper ==
  /\ MainIdle
  /\ BuilderNew("none", FreeClient)
  /\ \E l1 \in 0..MaxLen, l2 \in 0..MaxLen, b1 \in 0..MaxBase, b2 \in 0..MaxBase :
       helper = [state |-> "ready", lhs |-> Vec(b1, l1, "projective"),
                 rhs |-> Vec(b2, l2, "projective"),
                 out |-> [outcome |-> "none", ops |-> <<>>]]

Init == InitMain \/ InitBuilder \/ InitEquiv \/ InitHelper

InitOverflow == InitMainWith(WideParams)

\* ------------------------------------------------- main.rs: the actions
\* One call of simulate_group_ops from simulate_groth: the arguments are
\* computed; with overflow checks on, an overflow panics before the call.
GrothCall(name, a, lines) ==
  /\ stdout' = stdout \o lines
  /\ IF Overflowed(a) /\ overflow_checks
       THEN /\ pc' = "panicked"
            /\ UNCHANGED << phase, call, passed >>
       ELSE /\ pc' = "sample"
            /\ phase' = name
            /\ call' = Values(a)
            /\ passed' = Append(passed, Values(a))
  /\ UNCHANGED << overflow_checks, params, thread_rng, operands,
                  direct_trace, mark >>
  /\ UNCHANGED << builderVars, helper >>

\* simulate_groth, lines 75 to 85.
GrothCallProver ==
  /\ pc = "main"
  /\ GrothCall("prover", ProverArgs(params), << "Groth16", "Prover:" >>)

\* simulate_groth, lines 86 to 105.
GrothCallVerifier ==
  /\ pc = "ret" /\ phase = "prover"
  /\ GrothCall("verifier", VerifierArgs(params), << "Verifier:" >>)

\* simulate_group_ops, lines 27 to 61.
Sample ==
  /\ pc = "sample"
  /\ LET s == SampleOperands(call, thread_rng)
     IN /\ operands' = s.args
        /\ thread_rng' = s.rng
        /\ mark' = [entry |-> thread_rng.pos, start |-> s.rng.pos,
                    stop |-> s.rng.pos, timed |-> 0]
  /\ direct_trace' = <<>>
  /\ pc' = "start"
  /\ UNCHANGED << overflow_checks, params, phase, call, passed, stdout >>
  /\ UNCHANGED << builderVars, helper >>

\* simulate_group_ops, line 63: Instant::now().
StartTimer ==
  /\ pc = "start"
  /\ mark' = [mark EXCEPT !.start = thread_rng.pos]
  /\ pc' = "run"
  /\ UNCHANGED << overflow_checks, params, phase, call, passed, thread_rng,
                  operands, direct_trace, stdout >>
  /\ UNCHANGED << builderVars, helper >>

\* The timed region drawing the operands again before it uses them.
TimedRegionSampling ==
  /\ pc = "run"
  /\ LET s == SampleOperands(call, thread_rng)
     IN /\ thread_rng' = s.rng
        /\ operands' = s.args
        /\ direct_trace' = direct_trace \o TimedOps(s.args)
        /\ mark' = [mark EXCEPT !.stop = s.rng.pos, !.timed = @ + 1]
  /\ stdout' = Append(stdout, "duration")
  /\ pc' = "ret"
  /\ UNCHANGED << overflow_checks, params, phase, call, passed >>
  /\ UNCHANGED << builderVars, helper >>

\* simulate_group_ops, lines 64 to 71: the timed calls, elapsed(), println.
TimedRegion ==
  /\ pc = "run"
  /\ direct_trace' = direct_trace \o TimedOps(operands)
  /\ mark' = [mark EXCEPT !.stop = thread_rng.pos, !.timed = @ + 1]
  /\ stdout' = Append(stdout, "duration")
  /\ pc' = "ret"
  /\ UNCHANGED << overflow_checks, params, phase, call, passed, thread_rng,
                  operands >>
  /\ UNCHANGED << builderVars, helper >>

\* simulate_groth returns to main, which ends.
MainExit ==
  /\ pc = "ret" /\ phase = "verifier"
  /\ pc' = "exit"
  /\ UNCHANGED << overflow_checks, params, phase, call, passed, thread_rng,
                  operands, direct_trace, mark, stdout >>
  /\ UNCHANGED << builderVars, helper >>

\* --------------------------------- group_ops_simulation.rs: the actions
\* The client may make this add call now.
ClientMay(c) ==
  /\ alive = "live"
  /\ IF todo.free THEN Len(items) < MaxItems
     ELSE pc = "ret" /\ todo.calls # <<>> /\ Head(todo.calls) = c

\* self.items.push(Box::new(..)); the new item and the generator after it.
Push(c, made) ==
  /\ ClientMay(c)
  /\ items' = Append(items, made.item)
  /\ rng' = made.rng
  /\ built' = Append(built, c)
  /\ born' = Append(born, sim_calls)
  /\ runs' = Append(runs, 0)
  /\ todo' = IF todo.free THEN todo ELSE [todo EXCEPT !.calls = Tail(@)]
  /\ UNCHANGED << alive, trace, invoked, sim_calls >>
  /\ UNCHANGED << mainVars, helper >>

g1_exps(num) == Push(AddCall("g1_exps", num, 0), ExpsNew(rng, "G1", num))

g2_exps(num) == Push(AddCall("g2_exps", num, 0), ExpsNew(rng, "G2", num))

g1_multi_exps(num, size) ==
  Push(AddCall("g1_multi_exps", num, size), MultiExpsNew(rng, "G1", num, size))

g2_multi_exps(num, size) ==
  Push(AddCall("g2_multi_exps", num, size), MultiExpsNew(rng, "G2", num, size))

pairings(num) == Push(AddCall("pairings", num, 0), PairingsNew(rng, num))

multi_pairings(num, size) ==
  Push(AddCall("multi_pairings", num, size), MultiPairingsNew(rng, num, size))

\* GroupOpsSimulation::simulate(&self).
simulate ==
  /\ alive = "live"
  /\ sim_calls < MaxSimCalls
  /\ todo.free \/ todo.calls = <<>>
  /\ sim_calls' = sim_calls + 1
  /\ trace' = trace \o SimulateAll(items, sim_calls + 1)
  /\ LET order == ItemsIter(Len(items))
     IN /\ invoked' = invoked \o
                        [j \in 1..Len(order) |-> << sim_calls + 1, order[j] >>]
        /\ runs' = [i \in 1..Len(runs) |->
                      runs[i] + Cardinality({ j \in 1..Len(order) : order[j] = i })]
  /\ UNCHANGED << alive, items, rng, built, born, todo >>
  /\ UNCHANGED << mainVars, helper >>

\* The GroupOpsSimulation goes out of scope: its items are destroyed.
Drop ==
  /\ alive = "live"
  /\ todo.free \/ todo.calls = <<>>
  /\ alive' = "dropped"
  /\ UNCHANGED << items, rng, trace, invoked, built, born, runs, sim_calls,
                  todo >>
  /\ UNCHANGED << mainVars, helper >>

\* ------------------------------------------------------ the helper alone
CallMultiPairing ==
  /\ helper.state = "ready"
  /\ helper' = [helper EXCEPT !.state = "returned",
                              !.out = multi_pairing(helper.lhs, helper.rhs)]
  /\ UNCHANGED << mainVars, builderVars >>

\* ------------------------------------------------------- specifications
NextMain ==
  \/ GrothCallProver
  \/ Sample
  \/ StartTimer
  \/ TimedRegion
  \/ GrothCallVerifier
  \/ MainExit

NextBuilder ==
  \/ \E num \in Nums : g1_exps(num)
  \/ \E num \in Nums : g2_exps(num)
  \/ \E e \in Entries : g1_multi_exps(e[1], e[2])
  \/ \E e \in Entries : g2_multi_exps(e[1], e[2])
  \/ \E num \in Nums : pairings(num)
  \/ \E e \in Entries : multi_pairings(e[1], e[2])
  \/ simulate
  \/ Drop

Next == NextMain \/ NextBuilder \/ CallMultiPairing

Spec == Init /\ [][Next]_vars

\* The binary on parameters at the edge of usize.
SpecOverflow == InitOverflow /\ [][NextMain]_vars

\* ======================================================= the cost model
\* The counts of the specification, over the integers.  An entry of a
\* multi-exponentiation or multi-pairing list is <<repetitions, size>>.
ExactProver(p) ==
  [num_exps_in_G1 |-> p.n + 2 * p.k + p.l + 2,
   mexps_in_G1 |-> << <<2, p.n>>, <<p.n * p.k + p.n + p.k + p.l + 1, 2>> >>,
   num_exps_in_G2 |-> p.t + 1,
   mexps_in_G2 |-> <<>>,
   num_pairings |-> 0,
   multi_pairings |-> <<>>]

ExactVerifier(p) ==
  [num_exps_in_G1 |-> p.n + 2,
   mexps_in_G1 |-> << <<1, 2>>, <<2, p.n + 1>>, <<p.n, p.k + 1>>,
                      <<1, p.l + 1>>, <<1, p.k * p.n * p.l + p.l + 1>>,
                      <<1, p.n + 2>>, <<2, p.k>> >>,
   num_exps_in_G2 |-> 1,
   mexps_in_G2 |-> << <<1, p.t + 1>>, <<1, p.k>> >>,
   num_pairings |-> 0,
   multi_pairings |-> << <<1, 3>> >>]

\* simulate_group_ops sampled size operands on each side of every entry and
\* kept the entry's repetitions as its repetition count.
ReadAs(sampled, list) ==
  /\ Len(sampled) = Len(list)
  /\ \A i \in 1..Len(list) :
       /\ sampled[i][1] = list[i][1]
       /\ sampled[i][2].len = list[i][2]
       /\ sampled[i][3].len = list[i][2]

\* The running call sampled the operands the schedule S states.
SampledFor(S) ==
  /\ operands.exp_G1[1].len = S.num_exps_in_G1
  /\ operands.exp_G1[2].len = S.num_exps_in_G1
  /\ ReadAs(operands.mexp_G1, S.mexps_in_G1)
  /\ operands.exp_G2[1].len = S.num_exps_in_G2
  /\ operands.exp_G2[2].len = S.num_exps_in_G2
  /\ ReadAs(operands.mexp_G2, S.mexps_in_G2)
  /\ operands.pairing[1].len = S.num_pairings
  /\ operands.pairing[2].len = S.num_pairings
  /\ ReadAs(operands.multi_pairing, S.multi_pairings)

\* Provider calls of one kind and group in the direct path's trace.
DirectCount(kind, group) ==
  Cardinality({ j \in 1..Len(direct_trace) :
                  direct_trace[j].kind = kind /\ direct_trace[j].group = group })

Sampled == pc \in {"start", "run", "ret", "exit"}

Returned == pc \in {"ret", "exit"}

\* C1: the prover call of simulate_groth passes exactly G1 exps
\* n + 2k + l + 2, G1 multi-exps [size n twice, size 2 (nk + n + k + l + 1)
\* times] in that order, G2 exps t + 1, no G2 multi-exps, 0 pairings and no
\* multi-pairings, and simulate_group_ops reads them so; main's
\* (1000, 16, 666, 50) gives 1084, 17067 and 667, and (0, 0, 0, 0) gives 2,
\* 1 and the batches size 0 twice, size 2 once.
C1_ProverSchedule ==
  /\ phase \in {"prover", "verifier"} => passed[1] = ExactProver(params)
  /\ phase = "prover" /\ Sampled => SampledFor(ExactProver(params))
  /\ phase = "prover" /\ Returned =>
       /\ DirectCount("mul", "G1") = params.n + 2 * params.k + params.l + 2
       /\ DirectCount("multi_exp", "G1") =
            2 + params.n * params.k + params.n + params.k + params.l + 1
       /\ DirectCount("mul", "G2") = params.t + 1
       /\ Len(direct_trace) =
            DirectCount("mul", "G1") + DirectCount("multi_exp", "G1")
              + DirectCount("mul", "G2")
  /\ phase = "prover" /\ params = MainParams =>
       /\ call.num_exps_in_G1 = 1084
       /\ call.mexps_in_G1 = << <<2, 1000>>, <<17067, 2>> >>
       /\ call.num_exps_in_G2 = 667
  /\ phase = "prover" /\ params = [n |-> 0, k |-> 0, t |-> 0, l |-> 0] =>
       /\ call.num_exps_in_G1 = 2
       /\ call.mexps_in_G1 = << <<2, 0>>, <<1, 2>> >>
       /\ call.num_exps_in_G2 = 1

\* main's call has passed its prover schedule and sampled its operands.
C1_Witness ==
  /\ phase = "prover" /\ pc = "start" /\ params = MainParams
  /\ operands.mexp_G1[2][1] = 17067

\* C2: the verifier call of simulate_groth passes exactly G1 exps n + 2, G1
\* multi-exps (size, repetitions) (2,1), (n+1,2), (k+1,n), (l+1,1),
\* (knl + l + 1, 1), (n+2,1), (k,2) in that order, G2 exps 1, G2 multi-exps
\* (t+1,1), (k,1), 0 pairings and one multi-pairing of size 3 run once, and
\* simulate_group_ops reads every tuple in the order it was written.
C2_VerifierSchedule ==
  /\ phase = "verifier" => passed[2] = ExactVerifier(params)
  /\ phase = "verifier" /\ Sampled => SampledFor(ExactVerifier(params))
  /\ phase = "verifier" /\ Returned =>
       /\ DirectCount("mul", "G1") = params.n + 2
       /\ DirectCount("multi_exp", "G1") = params.n + 8
       /\ DirectCount("mul", "G2") = 1
       /\ DirectCount("multi_exp", "G2") = 2
       /\ DirectCount("pairing", "Gt") = 0
       /\ DirectCount("multi_miller_loop", "Bls12") = 1
       /\ DirectCount("final_exponentiation", "Bls12") = 1
       /\ direct_trace[Len(direct_trace) - 1].lhs.len = 3
       /\ Len(direct_trace) = params.n + 2 + params.n + 8 + 1 + 2 + 2

\* A verifier call has returned, every count and size of it distinct from 0.
C2_Witness ==
  /\ phase = "verifier" /\ pc = "ret"
  /\ params = [n |-> MaxParam, k |-> 1, t |-> 1, l |-> MaxParam]

\* ============================================== the builder and its items
\* Items in the list when simulate() call c started.
ItemsAt(c) == Cardinality({ i \in 1..Len(items) : born[i] < c })

\* The provider calls simulate() call c made for item i, in order.
OpsOf(c, i) == SelectSeq(trace, LAMBDA e : e.call = c /\ e.item = i)

\* C3: one simulate() invokes the items in insertion order: 1, 2, ... up to
\* the number of items in the list, none skipped, and the provider calls of
\* an earlier item all come before those of a later item.
C3_InsertionOrder ==
  /\ \A j \in 1..Len(invoked) :
       invoked[j][2] =
         IF j > 1 /\ invoked[j - 1][1] = invoked[j][1]
           THEN invoked[j - 1][2] + 1 ELSE 1
  /\ \A c \in 1..sim_calls :
       Cardinality({ j \in 1..Len(invoked) : invoked[j][1] = c }) = ItemsAt(c)
  /\ \A j \in 1..(Len(trace) - 1) :
       \/ trace[j].call < trace[j + 1].call
       \/ trace[j].call = trace[j + 1].call /\ trace[j].item <= trace[j + 1].item
  /\ \A j \in 1..Len(trace) : trace[j].item <= ItemsAt(trace[j].call)

C3_Witness ==
  /\ sim_calls >= 1
  /\ Len(items) >= 3
  /\ \A i \in 1..3 : OpsOf(1, i) # <<>>

\* C4: multi_pairing on sequences of different lengths aborts and produces
\* no multi-pairing result.
C4_MismatchAborts ==
  helper.state = "returned" /\ helper.lhs.len # helper.rhs.len =>
    helper.out.outcome = "abort" /\ helper.out.ops = <<>>

\* Draws one simulate_group_ops call makes for the schedule S.
RECURSIVE SizeSum(_)
SizeSum(list) == IF list = <<>> THEN 0 ELSE Head(list)[2] + SizeSum(Tail(list))

TotalDraws(S) ==
  2 * (S.num_exps_in_G1 + SizeSum(S.mexps_in_G1) + S.num_exps_in_G2
         + SizeSum(S.mexps_in_G2) + S.num_pairings + SizeSum(S.multi_pairings))

\* C5: no sampling while operations are simulated.  Builder: simulate()
\* leaves the generator, the item list and every item's operands as they
\* were, and the generator moves only in an add call.  Direct path: all the
\* draws of a call are made before Instant::now(), none until elapsed().
C5_NoSamplingWhileSimulating ==
  /\ [][ /\ sim_calls' # sim_calls => rng' = rng /\ items' = items
         /\ rng' # rng => /\ Len(items') = Len(items) + 1
                          /\ SubSeq(items', 1, Len(items)) = items
                          /\ sim_calls' = sim_calls
         /\ pc = "run" => thread_rng' = thread_rng ]_vars
  /\ [](pc \in {"run", "ret", "exit"} =>
          /\ mark.start - mark.entry = TotalDraws(call)
          /\ mark.stop = mark.start)

C5_Witness ==
  /\ sim_calls >= 1 /\ rng.pos > 0 /\ trace # <<>>
  /\ pc = "ret" /\ mark.start > 0 /\ direct_trace # <<>>

IsBatch(c) == c.method \in {"g1_multi_exps", "g2_multi_exps", "multi_pairings"}

\* C6: an entry with batch size 0 or repetition count 0 has no provider
\* call made for it, in the builder and in simulate_group_ops.
C6_ZeroEntryNoCall ==
  /\ \A j \in 1..Len(trace) :
       LET c == built[trace[j].item]
       IN IsBatch(c) => c.num # 0 /\ c.size # 0
  /\ \A j \in 1..Len(direct_trace) :
       direct_trace[j].kind \in
         {"multi_exp", "multi_miller_loop", "final_exponentiation"}
         => direct_trace[j].lhs.len # 0

\* C7: every count and batch size simulate_groth passes is the value of its
\* formula over the integers, never a wrapped one, and no run ends in a
\* panic instead of a schedule.
C7_ExactCountsNoPanic ==
  /\ pc # "panicked"
  /\ Len(passed) >= 1 => passed[1] = ExactProver(params)
  /\ Len(passed) >= 2 => passed[2] = ExactVerifier(params)

\* The provider calls one simulate() makes for an item made by the add call c.
ExpsRun(ops, group, c, bases, scalars) ==
  /\ Len(ops) = c.num
  /\ \A j \in 1..Len(ops) :
       /\ ops[j].op.kind = "mul" /\ ops[j].op.group = group
       /\ ops[j].op.lhs = Vec(bases.lo + j - 1, 1, bases.repr)
       /\ ops[j].op.rhs = Vec(scalars.lo + j - 1, 1, scalars.repr)

MultiExpsRun(ops, group, c, bases, scalars) ==
  /\ Len(ops) = c.num
  /\ bases.len = c.size /\ scalars.len = c.size
  /\ \A j \in 1..Len(ops) :
       /\ ops[j].op.kind = "multi_exp" /\ ops[j].op.group = group
       /\ ops[j].op.lhs = bases /\ ops[j].op.rhs = scalars

PairingsRun(ops, c, g1, g2) ==
  /\ Len(ops) = c.num
  /\ \A j \in 1..Len(ops) :
       /\ ops[j].op.kind = "pairing"
       /\ ops[j].op.lhs = Vec(g1.lo + j - 1, 1, "affine")
       /\ ops[j].op.rhs = Vec(g2.lo + j - 1, 1, "affine")

MultiPairingsRun(ops, c, g1, g2) ==
  /\ Len(ops) = 2 * c.num
  /\ g1.len = c.size /\ g2.len = c.size
  /\ \A j \in 1..Len(ops) :
       /\ ops[j].op.kind =
            IF j % 2 = 1 THEN "multi_miller_loop" ELSE "final_exponentiation"
       /\ ops[j].op.lhs.lo = g1.lo /\ ops[j].op.lhs.len = c.size
       /\ ops[j].op.rhs.lo = g2.lo /\ ops[j].op.rhs.len = c.size

RunsAsBuilt(ops, c, it) ==
  CASE c.method = "g1_exps" -> ExpsRun(ops, "G1", c, it.bases, it.scalars)
    [] c.method = "g2_exps" -> ExpsRun(ops, "G2", c, it.bases, it.scalars)
    [] c.method = "g1_multi_exps" ->
         MultiExpsRun(ops, "G1", c, it.bases, it.scalars)
    [] c.method = "g2_multi_exps" ->
         MultiExpsRun(ops, "G2", c, it.bases, it.scalars)
    [] c.method = "pairings" -> PairingsRun(ops, c, it.args_G1, it.args_G2)
    [] c.method = "multi_pairings" ->
         MultiPairingsRun(ops, c, it.args_G1, it.args_G2)

\* C8: one simulate() of an item performs the volume it was built with, on
\* the operands fixed when it was built: num scalar multiplications, the
\* i-th base by the i-th scalar; num multi_exp calls, each on the same size
\* bases and scalars; num pairings, the i-th G1 with the i-th G2; num
\* multi_pairing calls on the same size pairs, each one Miller loop
\* followed by one final exponentiation.
C8_VolumeAsBuilt ==
  \A c \in 1..sim_calls : \A i \in 1..ItemsAt(c) :
    RunsAsBuilt(OpsOf(c, i), built[i], items[i])

C8_Witness ==
  /\ sim_calls >= 1
  /\ \A m \in {"g1_exps", "g2_multi_exps", "pairings", "multi_pairings"} :
       \E i \in 1..Len(items) :
         built[i].method = m /\ built[i].num = MaxNum /\ OpsOf(1, i) # <<>>

\* C9: on one schedule, simulate_group_ops and a GroupOpsSimulation built
\* with g1_exps, g1_multi_exps per entry, g2_exps, g2_multi_exps per entry,
\* pairings, multi_pairings per entry and simulated once make the same
\* provider calls in the same order and the same draws in the same order.
C9_PathsAgree ==
  (pc = "ret" /\ ~todo.free /\ todo.calls = <<>> /\ sim_calls >= 1) =>
    LET first == SelectSeq(trace, LAMBDA e : e.call = 1)
    IN /\ built = BuildCalls(call)
       /\ [j \in 1..Len(first) |-> first[j].op] = direct_trace
       /\ rng.log = thread_rng.log
       /\ rng.pos = thread_rng.pos

C9_Witness ==
  /\ pc = "ret" /\ ~todo.free /\ todo.calls = <<>> /\ sim_calls = 1
  /\ call.num_exps_in_G1 > 0
  /\ call.mexps_in_G1 # <<>> /\ call.mexps_in_G2 # <<>>
  /\ call.multi_pairings # <<>>

\* C10, as claimed: every item is made before its schedule's simulate
\* starts and is simulated exactly once before it is destroyed.
C10_ExactlyOnce ==
  /\ \A i \in 1..Len(items) :
       /\ runs[i] <= 1
       /\ born[i] = 0
       /\ alive = "dropped" /\ sim_calls >= 1 => runs[i] = 1
  /\ mark.timed <= 1

\* C10, amended: each simulate() call invokes every item then in the list
\* exactly once and makes no item, so an item has been simulated once per
\* simulate() call made since it was added; in simulate_groth the operands
\* of a call are run exactly once, after they were all made.
C10_OncePerSimulateCall ==
  /\ Len(items) = Len(built) /\ Len(runs) = Len(items) /\ Len(born) = Len(items)
  /\ \A i \in 1..Len(items) :
       /\ runs[i] = sim_calls - born[i]
       /\ runs[i] = Cardinality({ j \in 1..Len(invoked) : invoked[j][2] = i })
  /\ pc \in {"start", "run"} => mark.timed = 0
  /\ pc \in {"ret", "exit"} => mark.timed = 1

C10_Witness ==
  /\ alive = "dropped"
  /\ \E i \in 1..Len(items) : runs[i] = 2
  /\ \E i \in 1..Len(items) : born[i] = 1 /\ runs[i] = 1

====
